---- MODULE Spec2Model ----
(***************************************************************************)
(* Persistence guard, alert derivation and action reconciler of the        *)
(* Royal Collection inventory client.  src/App.tsx holds two App           *)
(* components: the one with the persistence guard (lines 56-832, "A") and  *)
(* the one with applyInventoryAction (lines 1281-1987, "B").  Both are     *)
(* modelled; `app` says which one is mounted.                              *)
(*                                                                         *)
(* Strings are sequences of one-character strings, so that toLowerCase()   *)
(* and includes() are computed; a stored text is a record [t, v, len]:     *)
(* its JSON shape, the catalog it encodes and its length in characters.    *)
(***************************************************************************)
EXTENDS Integers, Sequences, FiniteSets, TLC

VARIABLES
  app,                \* "A" or "B": the App component that is mounted
  strictDev,          \* TRUE: development build, React.StrictMode re-runs mount effects
  store,              \* localStorage: [primary, backup, safety] -> stored text
  pc,                 \* "init", "mount", "remount", "idle", "effect", "crashed"
  products,           \* useState<Product[]>
  isManuallyCleared,  \* useState(false), App A
  isFirstRender,      \* useRef(true), App A
  isLoading,          \* useState(true), App B
  alerts,             \* useState<Alert[]>
  nextId,             \* ids handed out so far by crypto.randomUUID()
  outcome,            \* what the last event showed the user (alert text), "" when nothing
  fault,              \* "none", or the fault that took the application down
  faultsSeen,         \* storage faults (setItem throwing) so far
  isListening,        \* useState(false)
  recognizers,        \* the SpeechRecognition objects alive; the last is recognitionRef.current
  lastCall,           \* what the last click on the voice toggle called on the recognizer
  pending,            \* the processInventoryCommand calls awaited by handleVoiceCommand
  editingProduct      \* formData of the product form while it is open on a product

vars == <<app, strictDev, store, pc, products, isManuallyCleared, isFirstRender,
          isLoading, alerts, nextId, outcome, fault, faultsSeen,
          isListening, recognizers, lastCall, pending, editingProduct>>

-----------------------------------------------------------------------------
(* Bounds of the model *)

MaxProducts == 1
MaxSubs == 2
MaxNewIds == 2
MaxQty == 1
MaxFaults == 1
MaxSessions == 1
MaxCalls == 1

-----------------------------------------------------------------------------
(* Strings *)

LowerChar(ch) ==
  CASE ch = "C" -> "c"
    [] ch = "G" -> "g"
    [] ch = "S" -> "s"
    [] OTHER -> ch

ToLower(s) == [i \in DOMAIN s |-> LowerChar(s[i])]

Includes(s, t) ==
  \E i \in 0..(Len(s) - Len(t)) : SubSeq(s, i + 1, i + Len(t)) = t

RECURSIVE SeqSum(_)
SeqSum(s) == IF s = <<>> THEN 0 ELSE Head(s) + SeqSum(Tail(s))

-----------------------------------------------------------------------------
(* Catalog data model *)

MkSub(id, sku, name, color, price, quantity) ==
  [id |-> id, sku |-> sku, name |-> name, color |-> color,
   price |-> price, quantity |-> quantity]

MkProduct(id, name, category, basePrice, alertLimit, subs) ==
  [id |-> id, name |-> name, category |-> category, basePrice |-> basePrice,
   alertLimit |-> alertLimit, subProducts |-> subs]

DemoSeed ==
  << MkProduct(1, <<"R","o","y","a","l">>, <<"Furniture">>, 1200, 5,
       << MkSub(11, <<"R","V","S","-","B","L","K">>, <<"M","i","d">>,
                <<"B","l","a","c","k">>, 1200, 12),
          MkSub(12, <<"R","V","S","-","G","L","D">>, <<>>,
                <<"G","o","l","d">>, 1350, 4) >>) >>

-----------------------------------------------------------------------------
(* JSON text *)

ProductSkeletonLen == 120
SubSkeletonLen == 131

SubJsonLen(sp) == SubSkeletonLen + Len(sp.sku) + Len(sp.name) + Len(sp.color)

ProductJsonLen(p) ==
  ProductSkeletonLen + Len(p.name) + Len(p.category)
    + SeqSum([i \in DOMAIN p.subProducts |-> SubJsonLen(p.subProducts[i])])
    + (IF Len(p.subProducts) > 1 THEN Len(p.subProducts) - 1 ELSE 0)

JsonLen(cat) ==
  2 + SeqSum([i \in DOMAIN cat |-> ProductJsonLen(cat[i])])
    + (IF Len(cat) > 1 THEN Len(cat) - 1 ELSE 0)

Stringify(cat) == [t |-> "arr", v |-> cat, len |-> JsonLen(cat)]

Absent == [t |-> "absent", v |-> <<>>, len |-> 0]
ObjText == [t |-> "obj", v |-> <<>>, len |-> 2]
BadText(n) == [t |-> "bad", v |-> <<>>, len |-> n]

Truthy(x) == x.t # "absent" /\ x.len > 0

ParseOk(x) == x.t \in {"arr", "obj", "env"}

IsArrayText(x) == x.t = "arr"

ParsedItems(x) == IF x.t = "arr" THEN x.v ELSE <<>>

-----------------------------------------------------------------------------
(* Alert derivation (the timestamp, Date.now(), is left out) *)

AlertOf(p, sp) ==
  [id |-> <<p.id, sp.id>>,
   productName |-> IF sp.name # <<>> THEN sp.name ELSE p.name,
   sku |-> sp.sku, currentQuantity |-> sp.quantity, limit |-> p.alertLimit]

\* An alert derivation that leaves out the SubProducts exactly at the limit.
ProductAlertsStrict(p) ==
  LET low == SelectSeq(p.subProducts, LAMBDA sp : sp.quantity < p.alertLimit)
  IN  [i \in DOMAIN low |-> AlertOf(p, low[i])]

ProductAlerts(p) ==
  LET low == SelectSeq(p.subProducts, LAMBDA sp : sp.quantity <= p.alertLimit)
  IN  [i \in DOMAIN low |-> AlertOf(p, low[i])]

RECURSIVE DeriveAlerts(_)
DeriveAlerts(cat) ==
  IF cat = <<>> THEN <<>>
  ELSE ProductAlerts(Head(cat)) \o DeriveAlerts(Tail(cat))

-----------------------------------------------------------------------------
(* Boot: App A, the products initializer *)

GuardMinLen == 50

\* The storage fault f ("none": no setItem throws) is counted against the cap.
Faulting(f) ==
  /\ f # "none" => faultsSeen < MaxFaults
  /\ faultsSeen' = IF f = "none" THEN faultsSeen ELSE faultsSeen + 1

\* The value the initializer returns: isArray says whether it is an array.
LoadProducts(st) ==
  LET saved == IF Truthy(st.primary) THEN st.primary ELSE st.backup
  IN  IF Truthy(saved)
      THEN IF ParseOk(saved)
           THEN [isArray |-> TRUE, items |-> ParsedItems(saved)]
           ELSE IF Truthy(st.backup) /\ ParseOk(st.backup)
                THEN [isArray |-> IsArrayText(st.backup), items |-> ParsedItems(st.backup)]
                ELSE [isArray |-> TRUE, items |-> <<>>]
      ELSE [isArray |-> TRUE, items |-> DemoSeed]

SafetyCopy(st) ==
  IF Truthy(st.primary) THEN [st EXCEPT !.safety = st.primary] ELSE st

BootA(quota) ==
  /\ app = "A" /\ pc = "init"
  /\ quota => Truthy(store.primary)
  /\ Faulting(IF quota THEN "safety" ELSE "none")
  /\ IF quota
     THEN \* setItem(SAFETY_BACKUP_KEY) throws inside the initializer
          /\ pc' = "crashed" /\ fault' = "boot_storage"
          /\ UNCHANGED <<store, products>>
     ELSE LET r == LoadProducts(SafetyCopy(store))
          IN /\ store' = SafetyCopy(store)
             /\ products' = r.items
             /\ IF r.isArray
                THEN pc' = "mount" /\ fault' = "none"
                ELSE pc' = "crashed" /\ fault' = "boot_not_array"
  /\ isManuallyCleared' = FALSE /\ isFirstRender' = TRUE /\ isLoading' = FALSE
  /\ alerts' = <<>> /\ outcome' = ""
  /\ UNCHANGED <<app, strictDev, nextId>>

(* The save-and-alerts effect of App A *)

GuardSkips(st, cat, cleared) ==
  /\ cat = <<>> /\ ~cleared
  /\ Truthy(st.primary) /\ st.primary.len > GuardMinLen

\* A save that leaves out the redundant backup write.
WriteBothPrimaryOnly(st, json, f) ==
  CASE f \in {"none", "backup"} -> [st EXCEPT !.primary = json]
    [] OTHER -> st

\* localStorage after the two setItem calls; f names the call that throws.
WriteBoth(st, json, f) ==
  CASE f = "none" -> [st EXCEPT !.primary = json, !.backup = json]
    [] f = "backup" -> [st EXCEPT !.primary = json]
    [] OTHER -> st

EffectA(f) ==
  /\ app = "A" /\ pc \in {"mount", "remount", "effect"}
  /\ Faulting(f)
  /\ IF isFirstRender
     THEN /\ f = "none"
          /\ isFirstRender' = FALSE
          /\ UNCHANGED <<store, alerts>>
     ELSE IF GuardSkips(store, products, isManuallyCleared)
     THEN /\ f = "none"
          /\ UNCHANGED <<store, alerts, isFirstRender>>
     ELSE /\ store' = WriteBoth(store, Stringify(products), f)
          /\ alerts' = DeriveAlerts(products)
          /\ UNCHANGED isFirstRender
  /\ pc' = IF pc = "mount" /\ strictDev THEN "remount" ELSE "idle"
  /\ outcome' = IF f = "none" THEN outcome ELSE "storage_full"
  /\ UNCHANGED <<app, strictDev, products, isManuallyCleared, isLoading,
                 nextId, fault>>

-----------------------------------------------------------------------------
(* Boot and effects: App B *)

BootB ==
  /\ app = "B" /\ pc = "init"
  /\ products' = <<>> /\ isLoading' = TRUE
  /\ pc' = "mount" /\ fault' = "none"
  /\ isManuallyCleared' = FALSE /\ isFirstRender' = FALSE
  /\ alerts' = <<>> /\ outcome' = ""
  /\ UNCHANGED <<app, strictDev, store, nextId, faultsSeen>>

\* Mount effects: load (setProducts(parsed), setIsLoading(false)); the save effect
\* sees isLoading = true and the alerts effect sees the empty catalog.
LoadEffectB ==
  /\ app = "B" /\ pc \in {"mount", "remount"}
  /\ LET saved == store.primary
     IN IF Truthy(saved) /\ ParseOk(saved)
        THEN IF IsArrayText(saved)
             THEN /\ products' = ParsedItems(saved)
                  /\ pc' = IF pc = "mount" /\ strictDev THEN "remount" ELSE "effect"
                  /\ fault' = "none"
             ELSE /\ products' = <<>>
                  /\ pc' = "crashed" /\ fault' = "render_not_array"
        ELSE /\ UNCHANGED <<products, fault>>
             /\ pc' = IF pc = "mount" /\ strictDev THEN "remount" ELSE "effect"
  /\ isLoading' = FALSE
  /\ alerts' = <<>>
  /\ UNCHANGED <<app, strictDev, store, isManuallyCleared, isFirstRender,
                 nextId, outcome, faultsSeen>>

\* The save effect and the alerts effect after a render with changed state.
EffectB(f) ==
  /\ app = "B" /\ pc = "effect"
  /\ Faulting(f)
  /\ IF ~isLoading /\ Len(products) > 0
     THEN IF f = "none"
          THEN /\ store' = [store EXCEPT !.primary = Stringify(products)]
               /\ pc' = "idle" /\ UNCHANGED fault
          ELSE \* setItem throws outside any try: the effect faults
               /\ f = "primary"
               /\ pc' = "crashed" /\ fault' = "effect_storage"
               /\ UNCHANGED store
     ELSE /\ f = "none"
          /\ pc' = "idle"
          /\ UNCHANGED <<store, fault>>
  /\ alerts' = IF pc' = "crashed" THEN alerts ELSE DeriveAlerts(products)
  /\ UNCHANGED <<app, strictDev, products, isManuallyCleared, isFirstRender,
                 isLoading, nextId, outcome>>

-----------------------------------------------------------------------------
(* Event handlers shared by both App components *)

ProductIds(cat) == {cat[i].id : i \in DOMAIN cat}

SaveProductOp(prev, product) ==
  IF \E i \in DOMAIN prev : prev[i].id = product.id
  THEN [i \in DOMAIN prev |-> IF prev[i].id = product.id THEN product ELSE prev[i]]
  ELSE Append(prev, product)

SaveSubOp(subs, sub) ==
  IF \E j \in DOMAIN subs : subs[j].id = sub.id
  THEN [j \in DOMAIN subs |-> IF subs[j].id = sub.id THEN sub ELSE subs[j]]
  ELSE Append(subs, sub)

SaveSubProductOp(prev, parentId, sub) ==
  [i \in DOMAIN prev |->
     IF prev[i].id = parentId
     THEN [prev[i] EXCEPT !.subProducts = SaveSubOp(@, sub)]
     ELSE prev[i]]

DeleteProductOp(prev, id) == SelectSeq(prev, LAMBDA p : p.id # id)

DeleteSubProductOp(prev, pId, sId) ==
  [i \in DOMAIN prev |->
     IF prev[i].id = pId
     THEN [prev[i] EXCEPT !.subProducts = SelectSeq(@, LAMBDA s : s.id # sId)]
     ELSE prev[i]]

\* What every handler that calls setProducts(new) leaves behind.
Changed(new, flag, msg) ==
  /\ products' = new
  /\ isManuallyCleared' = flag
  /\ outcome' = msg
  /\ pc' = "effect"
  /\ UNCHANGED <<app, strictDev, store, isFirstRender, isLoading, alerts,
                 fault, faultsSeen>>

\* A handler that changes no state the effects depend on.
Quiet(msg) ==
  /\ outcome' = msg
  /\ UNCHANGED <<app, strictDev, store, pc, products, isManuallyCleared,
                 isFirstRender, isLoading, alerts, nextId, fault,
                 faultsSeen>>

\* The n-th id drawn by crypto.randomUUID(): distinct from every other id.
FreshId(n) == 100 + n

FormNames == {<<"L">>}
FormQtys == {-1}

\* The product form saved on a new product (its id drawn when the form opened).
SaveNewProduct(name) ==
  /\ pc = "idle" /\ Len(products) < MaxProducts /\ nextId < MaxNewIds
  /\ nextId' = nextId + 1
  /\ Changed(SaveProductOp(products,
         MkProduct(FreshId(nextId), name, <<"F">>, 0, 10, <<>>)),
       isManuallyCleared, "")

\* The product form saved on an existing product, opened on the current catalog.
SaveEditedProduct(i, name, limit) ==
  /\ pc = "idle" /\ i \in DOMAIN products
  /\ UNCHANGED nextId
  /\ Changed(SaveProductOp(products, [products[i] EXCEPT !.name = name, !.alertLimit = limit]),
       isManuallyCleared, "")

\* The variant form saved on a new variant of product i.
SaveNewSub(i, qty) ==
  /\ pc = "idle" /\ i \in DOMAIN products
  /\ Len(products[i].subProducts) < MaxSubs /\ nextId < MaxNewIds
  /\ nextId' = nextId + 1
  /\ Changed(SaveSubProductOp(products, products[i].id,
         MkSub(FreshId(nextId), <<"S">>, <<>>, <<"G">>, 0, qty)),
       isManuallyCleared, "")

\* The variant form saved on an existing variant with a new quantity.
SaveEditedSub(i, j, qty) ==
  /\ pc = "idle" /\ i \in DOMAIN products /\ j \in DOMAIN products[i].subProducts
  /\ UNCHANGED nextId
  /\ Changed(SaveSubProductOp(products, products[i].id,
         [products[i].subProducts[j] EXCEPT !.quantity = qty]),
       isManuallyCleared, "")

DeleteProduct(i, confirm) ==
  /\ pc = "idle" /\ i \in DOMAIN products
  /\ UNCHANGED nextId
  /\ IF confirm
     THEN Changed(DeleteProductOp(products, products[i].id),
                  IF app = "A" THEN TRUE ELSE isManuallyCleared, "")
     ELSE Quiet("")

DeleteSubProduct(i, j) ==
  /\ pc = "idle" /\ i \in DOMAIN products /\ j \in DOMAIN products[i].subProducts
  /\ UNCHANGED nextId
  /\ Changed(DeleteSubProductOp(products, products[i].id, products[i].subProducts[j].id),
       isManuallyCleared, "")

-----------------------------------------------------------------------------
(* App A: force save, restore safety backup, JSON import *)

\* A force save that goes through the write guard of the automatic save.
HandleManualSaveGuarded(f) ==
  /\ app = "A" /\ pc = "idle"
  /\ Faulting(f)
  /\ store' = IF GuardSkips(store, products, isManuallyCleared) THEN store
              ELSE WriteBoth(store, Stringify(products), f)
  /\ outcome' = IF f = "none" THEN "saved" ELSE "save_failed"
  /\ UNCHANGED <<app, strictDev, pc, products, isManuallyCleared, isFirstRender,
                 isLoading, alerts, nextId, fault>>

HandleManualSave(f) ==
  /\ app = "A" /\ pc = "idle"
  /\ Faulting(f)
  /\ store' = WriteBoth(store, Stringify(products), f)
  /\ outcome' = IF f = "none" THEN "saved" ELSE "save_failed"
  /\ UNCHANGED <<app, strictDev, pc, products, isManuallyCleared, isFirstRender,
                 isLoading, alerts, nextId, fault>>

RestoreFromSafety(confirm) ==
  /\ app = "A" /\ pc = "idle"
  /\ UNCHANGED nextId
  /\ LET safety == store.safety
     IN IF ~confirm THEN Quiet("")
        ELSE IF ~Truthy(safety) THEN Quiet("no_safety_backup")
        ELSE IF ~ParseOk(safety) THEN Quiet("safety_corrupted")
        ELSE IF IsArrayText(safety)
        THEN Changed(ParsedItems(safety), isManuallyCleared, "restored_safety")
        ELSE \* setProducts(<not an array>): the next render throws
             /\ pc' = "crashed" /\ fault' = "render_not_array"
             /\ outcome' = "restored_safety"
             /\ products' = <<>>
             /\ UNCHANGED <<app, strictDev, store, isManuallyCleared, isFirstRender,
                            isLoading, alerts, faultsSeen>>

\* An id for the k-th record of an imported file that carries none.
ImportId(k) == 1000 + k

\* A sanitization that gives every variant a new id.
SanitizeSubNewIds(sp, k) ==
  [id |-> ImportId(k),
   sku |-> IF sp.sku # <<>> THEN sp.sku ELSE <<"UNKNOWN-SKU">>,
   name |-> sp.name,
   color |-> IF sp.color # <<>> THEN sp.color ELSE <<"Default">>,
   price |-> sp.price,
   quantity |-> sp.quantity]

SanitizeSub(sp, k) ==
  [id |-> IF sp.id # 0 THEN sp.id ELSE ImportId(k),
   sku |-> IF sp.sku # <<>> THEN sp.sku ELSE <<"UNKNOWN-SKU">>,
   name |-> sp.name,
   color |-> IF sp.color # <<>> THEN sp.color ELSE <<"Default">>,
   price |-> sp.price,
   quantity |-> sp.quantity]

SanitizeProduct(p, k) ==
  [id |-> IF p.id # 0 THEN p.id ELSE ImportId(k),
   name |-> IF p.name # <<>> THEN p.name ELSE <<"Imported Product">>,
   category |-> IF p.category # <<>> THEN p.category ELSE <<"Uncategorized">>,
   basePrice |-> p.basePrice,
   alertLimit |-> p.alertLimit,
   subProducts |-> [j \in DOMAIN p.subProducts |->
                      SanitizeSub(p.subProducts[j], k + j)]]

Sanitize(raw) ==
  [i \in DOMAIN raw |-> SanitizeProduct(raw[i], i * (MaxSubs + 2))]

EnvText(cat) == [t |-> "env", v |-> cat, len |-> JsonLen(cat) + 12]

\* The file the JSON backup downloads (its indentation carries no content).
HandleBackup(cat) == Stringify(cat)

\* The list of products a file holds, for the two shapes the import accepts.
FileItems(file) == IF file.t \in {"arr", "env"} THEN file.v ELSE <<>>

HandleFileUploadA(file, confirm, f) ==
  /\ app = "A" /\ pc = "idle"
  /\ UNCHANGED nextId
  /\ IF ~ParseOk(file) THEN f = "none" /\ confirm /\ Quiet("error_parsing")
     ELSE IF file.t \notin {"arr", "env"} THEN f = "none" /\ confirm /\ Quiet("invalid_format")
     ELSE IF ~confirm THEN f = "none" /\ Quiet("")
     ELSE LET new == Sanitize(FileItems(file))
          IN /\ f \in {"none", "primary"}
             /\ Faulting(f)
             /\ products' = new
             /\ isManuallyCleared' = FALSE
             /\ store' = IF f = "none"
                         THEN [store EXCEPT !.primary = Stringify(new)]
                         ELSE store
             /\ outcome' = IF f = "none" THEN "restored" ELSE "restored_not_saved"
             /\ pc' = "effect"
             /\ UNCHANGED <<app, strictDev, isFirstRender, isLoading, alerts, fault>>

HandleFileUploadB(file) ==
  /\ app = "B" /\ pc = "idle"
  /\ UNCHANGED nextId
  /\ IF ~ParseOk(file) THEN Quiet("error_parsing")
     ELSE IF IsArrayText(file)
     THEN Changed(ParsedItems(file), isManuallyCleared, "restored")
     ELSE Quiet("")

-----------------------------------------------------------------------------
(* Voice actions: App A, handleVoiceCommand *)

MaxOf(a, b) == IF a >= b THEN a ELSE b

OrElse(s, t) == IF s # <<>> THEN s ELSE t

NameMatchA(p, a) ==
  \/ Includes(ToLower(p.name), ToLower(a.productName))
  \/ \E j \in DOMAIN p.subProducts :
       Includes(ToLower(p.subProducts[j].name), ToLower(a.productName))

SubMatchA(sp, a) ==
  \/ a.sku # <<>> /\ ToLower(sp.sku) = ToLower(a.sku)
  \/ a.color # <<>> /\ Includes(ToLower(sp.color), ToLower(a.color))
  \/ a.productName # <<>> /\ Includes(ToLower(sp.name), ToLower(a.productName))
  \/ (a.sku = <<>> /\ a.color = <<>> /\ a.productName = <<>>)

HitA(p, sp, a) == NameMatchA(p, a) /\ SubMatchA(sp, a)

NewQuantityA(q, change) == q + change

UpdateStockA(prev, a) ==
  [i \in DOMAIN prev |->
     [prev[i] EXCEPT !.subProducts =
        [j \in DOMAIN @ |->
           IF HitA(prev[i], @[j], a)
           THEN [@[j] EXCEPT !.quantity = NewQuantityA(@, a.quantityChange)]
           ELSE @[j]]]]

\* The `updated` flag after the updater has mapped the catalog.
AnyHitA(prev, a) ==
  \E i \in DOMAIN prev : \E j \in DOMAIN prev[i].subProducts :
     HitA(prev[i], prev[i].subProducts[j], a)

\* The quantities of a catalog, for the caps of the model.
Quantities(cat) ==
  UNION {{cat[i].subProducts[j].quantity : j \in DOMAIN cat[i].subProducts} :
           i \in DOMAIN cat}

InRange(old, new) ==
  \A q \in Quantities(new) \ Quantities(old) : q >= -MaxQty /\ q <= MaxQty

CreateProductA(a, id) ==
  MkProduct(id, OrElse(a.dataName, OrElse(a.productName, <<"New Product">>)),
            <<"General">>, 0, 10, <<>>)

HandleVoiceCommandA(a) ==
  /\ app = "A" /\ pc = "idle"
  /\ CASE a.type = "UNKNOWN" ->
            /\ Quiet("could_not_understand")
       [] a.type = "CREATE_PRODUCT" ->
            IF ~a.hasData
            THEN \* action.data.name on an absent payload: the handler rejects
                 Quiet("UNHANDLED")
            ELSE /\ Len(products) < MaxProducts /\ nextId < MaxNewIds
                 /\ nextId' = nextId + 1
                 /\ Changed(Append(products, CreateProductA(a, FreshId(nextId))),
                         isManuallyCleared, "created")
       [] a.type = "ADD_SUB_PRODUCT" ->
            Quiet("")
       [] a.type = "UPDATE_STOCK" ->
            IF AnyHitA(products, a)
            THEN /\ InRange(products, UpdateStockA(products, a))
                 /\ UNCHANGED nextId
                 /\ Changed(UpdateStockA(products, a), isManuallyCleared,
                              "stock_updated")
            ELSE Quiet("not_found")

-----------------------------------------------------------------------------
(* Voice actions: App B, applyInventoryAction *)

BySku(sp, a) == a.sku # <<>> /\ ToLower(sp.sku) = ToLower(a.sku)

MatchesProduct(p, a) == a.productName # <<>> /\ ToLower(p.name) = ToLower(a.productName)

ByProductAndColor(p, sp, a) ==
  MatchesProduct(p, a) /\ a.color # <<>> /\ Includes(ToLower(sp.color), ToLower(a.color))

HitB(p, sp, a) == BySku(sp, a) \/ ByProductAndColor(p, sp, a)

NewQuantityB(q, change) == MaxOf(0, q + change)

UpdateStockB(prev, a) ==
  [i \in DOMAIN prev |->
     [prev[i] EXCEPT !.subProducts =
        [j \in DOMAIN @ |->
           IF HitB(prev[i], @[j], a)
           THEN [@[j] EXCEPT !.quantity = NewQuantityB(@, a.quantityChange)]
           ELSE @[j]]]]

\* The `matched` flag after the updater has mapped the catalog.
AnyHitB(prev, a) ==
  \E i \in DOMAIN prev : \E j \in DOMAIN prev[i].subProducts :
     HitB(prev[i], prev[i].subProducts[j], a)

\* What the handler reads in `matched` after setProducts(updater): the updater
\* has run by then only when React computed the state eagerly.
MatchedSeen(prev, a, eager) == eager /\ AnyHitB(prev, a)

NewSubB(a, p, id) ==
  MkSub(id, OrElse(a.sku, <<"SKU-#">>), a.dataName, OrElse(a.color, <<"Default">>),
        p.basePrice, IF a.hasQuantity THEN a.dataQuantity ELSE 0)

ProductNameB(a) == OrElse(a.productName, OrElse(a.dataName, <<"Untitled Product">>))

ExistingB(prev, a) ==
  {i \in DOMAIN prev : ToLower(prev[i].name) = ToLower(ProductNameB(a))}

FirstOf(S) == CHOOSE i \in S : \A k \in S : i <= k

\* The calls of crypto.randomUUID() a CREATE_PRODUCT action makes.
IdsOfCreateB(prev, a) ==
  (IF ExistingB(prev, a) = {} THEN 1 ELSE 0) + (IF a.hasQuantity THEN 1 ELSE 0)

CreateProductB(prev, a, n) ==
  LET ex == ExistingB(prev, a)
      base == IF ex # {} THEN prev[FirstOf(ex)]
              ELSE MkProduct(FreshId(n), ProductNameB(a), <<"General">>, 0, 10, <<>>)
      subs == IF a.hasQuantity
              THEN Append(base.subProducts,
                          NewSubB(a, base, FreshId(n + IdsOfCreateB(prev, a) - 1)))
              ELSE base.subProducts
      updated == [base EXCEPT !.subProducts = subs]
  IN  IF ex # {}
      THEN [i \in DOMAIN prev |-> IF prev[i].id = base.id THEN updated ELSE prev[i]]
      ELSE Append(prev, updated)

\* The products an ADD_SUB_PRODUCT action names.
NamedB(prev, a) == {i \in DOMAIN prev : ToLower(prev[i].name) = ToLower(a.productName)}

AddSubProductB(prev, a, n) ==
  [i \in DOMAIN prev |->
     IF i \notin NamedB(prev, a) THEN prev[i]
     ELSE [prev[i] EXCEPT !.subProducts =
             Append(@, NewSubB(a, prev[i],
                               FreshId(n + Cardinality({k \in NamedB(prev, a) : k < i}))))]]

SizeOk(cat) ==
  /\ Len(cat) <= MaxProducts
  /\ \A i \in DOMAIN cat : Len(cat[i].subProducts) <= MaxSubs

ApplyInventoryActionB(a, eager) ==
  /\ app = "B" /\ pc = "idle"
  /\ CASE a.type = "UNKNOWN" ->
            /\ eager
            /\ Quiet("reason")
       [] a.type = "CREATE_PRODUCT" ->
            /\ eager
            /\ nextId + IdsOfCreateB(products, a) <= MaxNewIds
            /\ SizeOk(CreateProductB(products, a, nextId))
            /\ nextId' = nextId + IdsOfCreateB(products, a)
            /\ Changed(CreateProductB(products, a, nextId),
                         isManuallyCleared, "reason")
       [] a.type = "ADD_SUB_PRODUCT" ->
            /\ eager
            /\ nextId + Cardinality(NamedB(products, a)) <= MaxNewIds
            /\ SizeOk(AddSubProductB(products, a, nextId))
            /\ nextId' = nextId + Cardinality(NamedB(products, a))
            /\ Changed(AddSubProductB(products, a, nextId),
                         isManuallyCleared, "reason")
       [] a.type = "UPDATE_STOCK" ->
            IF a.quantityChange = 0
            THEN eager /\ Quiet("")
            ELSE /\ InRange(products, UpdateStockB(products, a))
                 /\ UNCHANGED nextId
                 /\ Changed(UpdateStockB(products, a), isManuallyCleared,
                              IF MatchedSeen(products, a, eager)
                              THEN "reason" ELSE "not_found")

-----------------------------------------------------------------------------
(* The recognizer, the AI call and the product form *)

\* A step that leaves the recognizers, the AI calls and the product form alone.
Still == UNCHANGED <<isListening, recognizers, lastCall, pending, editingProduct>>

\* A step of the recognizer or of the form: the catalog and the storage stay.
CatalogStays ==
  UNCHANGED <<app, strictDev, store, pc, products, isManuallyCleared, isFirstRender,
              isLoading, alerts, nextId, outcome, fault, faultsSeen>>

\* new SpeechRecognition(), with the catalog its onresult closure has captured.
NewRecognizer(cat) == [session |-> "none", seen |-> cat]

\* The recognizers with a session: start() called, end event not yet delivered.
Live(recs) == SelectSeq(recs, LAMBDA r : r.session # "none")

\* recognitionRef.current = recognition: the earlier recognizers keep running.
SetUp(recs, cat) == Append(Live(recs), NewRecognizer(cat))

\* The voice setup effect of App A: once, at mount.
VoiceSetupA ==
  /\ recognizers' = IF pc \in {"mount", "remount"} THEN SetUp(recognizers, products)
                    ELSE recognizers
  /\ UNCHANGED <<isListening, lastCall, pending, editingProduct>>

\* The voice setup effect of App B: at mount and after every change of products.
VoiceSetupB ==
  /\ recognizers' = SetUp(recognizers, products)
  /\ UNCHANGED <<isListening, lastCall, pending, editingProduct>>

ToggleListening ==
  /\ pc = "idle" /\ editingProduct = <<>> /\ recognizers # <<>>
  /\ LET k == Len(recognizers)
         cur == recognizers[k]
     IN  IF isListening
         THEN /\ lastCall' = "stop"
              /\ recognizers' = IF cur.session \in {"starting", "active"}
                                THEN [recognizers EXCEPT ![k].session = "stopping"]
                                ELSE recognizers
         ELSE IF cur.session = "none"
         THEN /\ Len(Live(recognizers)) < MaxSessions
              /\ lastCall' = "start"
              /\ recognizers' = [recognizers EXCEPT ![k].session = "starting"]
         ELSE \* start() on a recognizer that has started throws InvalidStateError
              /\ lastCall' = "start_rejected"
              /\ UNCHANGED recognizers
  /\ UNCHANGED <<isListening, pending, editingProduct>>
  /\ CatalogStays

\* recognition.onstart
OnStart(k) ==
  /\ pc = "idle" /\ k \in DOMAIN recognizers
  /\ recognizers[k].session = "starting"
  /\ recognizers' = [recognizers EXCEPT ![k].session = "active"]
  /\ isListening' = TRUE
  /\ UNCHANGED <<lastCall, pending, editingProduct>>
  /\ CatalogStays

\* recognition.onresult, up to the await of processInventoryCommand.
OnResult(k) ==
  /\ pc = "idle" /\ k \in DOMAIN recognizers
  /\ recognizers[k].session \in {"active", "stopping"}
  /\ Len(pending) < MaxCalls
  /\ recognizers' = [recognizers EXCEPT ![k].session = "done"]
  /\ pending' = Append(pending, [seen |-> recognizers[k].seen])
  /\ UNCHANGED <<isListening, lastCall, editingProduct>>
  /\ CatalogStays

RemoveAt(q, n) == SubSeq(q, 1, n - 1) \o SubSeq(q, n + 1, Len(q))

\* recognition.onend
OnEnd(k) ==
  /\ pc = "idle" /\ k \in DOMAIN recognizers
  /\ recognizers[k].session # "none"
  /\ recognizers' = IF k = Len(recognizers)
                    THEN [recognizers EXCEPT ![k].session = "none"]
                    ELSE RemoveAt(recognizers, k)
  /\ isListening' = FALSE
  /\ UNCHANGED <<lastCall, pending, editingProduct>>
  /\ CatalogStays

\* The edit button of a product: setEditingProduct(product), the form opens.
OpenProductForm(i) ==
  /\ pc = "idle" /\ editingProduct = <<>> /\ i \in DOMAIN products
  /\ editingProduct' = <<products[i]>>
  /\ UNCHANGED <<isListening, recognizers, lastCall, pending>>
  /\ CatalogStays

\* The form submitted: onSave(formData), onClose().
SubmitProductForm(name, limit) ==
  /\ pc = "idle" /\ editingProduct # <<>>
  /\ UNCHANGED nextId
  /\ Changed(SaveProductOp(products,
         [editingProduct[1] EXCEPT !.name = name, !.alertLimit = limit]),
       isManuallyCleared, "")
  /\ editingProduct' = <<>>
  /\ UNCHANGED <<isListening, recognizers, lastCall, pending>>

\* The form closed without saving.
CloseProductForm ==
  /\ pc = "idle" /\ editingProduct # <<>>
  /\ editingProduct' = <<>>
  /\ UNCHANGED <<isListening, recognizers, lastCall, pending>>
  /\ CatalogStays

-----------------------------------------------------------------------------
(* Inputs *)

Action(type, productName, sku, color, change, hasData, hasQuantity, qty) ==
  [type |-> type, productName |-> productName, sku |-> sku, color |-> color,
   quantityChange |-> change, hasData |-> hasData, dataName |-> <<>>,
   hasQuantity |-> hasQuantity, dataQuantity |-> qty]

UpdateStockActions ==
  {Action("UPDATE_STOCK", n, k, c, d, FALSE, FALSE, 0) :
     n \in {<<>>, <<"c">>}, k \in {<<>>, <<"s">>}, c \in {<<>>, <<"g">>},
     d \in {-2, 0, 1}}

CreateActions ==
  {Action(t, n, <<>>, <<>>, 0, h[1], h[2], h[3]) :
     t \in {"CREATE_PRODUCT", "ADD_SUB_PRODUCT"}, n \in {<<"c">>, <<"L">>},
     h \in {<<FALSE, FALSE, 0>>, <<TRUE, TRUE, -1>>}}
    \cup {Action("CREATE_PRODUCT", <<"c">>, <<>>, <<"g">>, 0, FALSE, FALSE, 0)}

VoiceActions ==
  UpdateStockActions \cup CreateActions
    \cup {Action("UNKNOWN", <<>>, <<>>, <<>>, 0, FALSE, FALSE, 0)}

\* What the catch of processInventoryCommand returns.
FailureAction == Action("UNKNOWN", <<>>, <<>>, <<>>, 0, FALSE, FALSE, 0)

\* What generateContent gave: "failed" (the request threw), "empty" (no text),
\* "bad" (text that JSON.parse rejects), "json" (the text of an action).
Response(kind, action) == [kind |-> kind, action |-> action]

\* A processInventoryCommand without the catch: it hands on what the text held.
ProcessInventoryCommandLenient(r) == r.action

ProcessInventoryCommand(r) ==
  IF r.kind = "json" THEN r.action ELSE FailureAction

\* The action a text cut short was carrying.
CutShort == Action("CREATE_PRODUCT", <<"L">>, <<>>, <<>>, 0, TRUE, TRUE, 0)

FailedResponses == {Response(k, CutShort) : k \in {"failed", "empty", "bad"}}

\* The actions the AI calls of the voice sessions resolve to.
ResumeActions ==
  {a \in UpdateStockActions :
     a.sku = <<"s">> /\ a.productName = <<>> /\ a.color = <<>> /\ a.quantityChange = -2}
    \cup {a \in CreateActions : a.productName = <<"c">> /\ a.hasData}
    \cup {FailureAction}

Responses == {Response("json", a) : a \in ResumeActions} \cup FailedResponses

\* handleVoiceCommand after the await: call n resolves with response r.
ResumeVoiceStale(n, r) ==
  /\ pc = "idle" /\ n \in DOMAIN pending
  /\ pending' = RemoveAt(pending, n)
  /\ products' = pending[n].seen
  /\ pc' = "effect" /\ outcome' = "reason"
  /\ UNCHANGED <<app, strictDev, store, isManuallyCleared, isFirstRender, isLoading,
                 alerts, nextId, fault, faultsSeen,
                 isListening, recognizers, lastCall, editingProduct>>

ResumeVoice(n, r) ==
  /\ n \in DOMAIN pending
  /\ pending' = RemoveAt(pending, n)
  /\ \/ HandleVoiceCommandA(ProcessInventoryCommand(r))
     \/ \E eager \in BOOLEAN : ApplyInventoryActionB(ProcessInventoryCommand(r), eager)
  /\ UNCHANGED <<isListening, recognizers, lastCall, editingProduct>>

Cat1 ==
  << MkProduct(1, <<"C">>, <<"F">>, 0, 1,
       << MkSub(2, <<"S">>, <<>>, <<"G","o">>, 0, 1) >>) >>

Cat2 ==
  << MkProduct(1, <<"C">>, <<"F">>, 0, 1,
       << MkSub(2, <<"S">>, <<>>, <<"G">>, 0, 1),
          MkSub(3, <<"T">>, <<>>, <<"g","x">>, 0, 2) >>) >>

ImportFiles ==
  {Stringify(<<>>), Stringify(Cat1), EnvText(Cat2), ObjText, BadText(7)}

Faults == {"none", "primary", "backup"}

PrimaryValues ==
  {Absent, Stringify(<<>>), Stringify(Cat1), Stringify(Cat2), ObjText, BadText(60)}

BackupValues == {Absent, Stringify(Cat1), ObjText, BadText(3)}

SafetyValues == {Absent, Stringify(Cat2)}

BootStores == [primary : PrimaryValues, backup : BackupValues, safety : SafetyValues]

Store(primary, backup, safety) ==
  [primary |-> primary, backup |-> backup, safety |-> safety]

SessionStores ==
  {Store(Absent, Absent, Absent),
   Store(Stringify(Cat2), Absent, Absent),
   Store(Stringify(Cat2), Stringify(Cat1), Stringify(Cat1))}

-----------------------------------------------------------------------------
(* The application *)

InitFrom(stores, builds) ==
  /\ app \in {"A", "B"}
  /\ strictDev \in builds
  /\ store \in stores
  /\ app = "B" => store.backup = Absent /\ store.safety = Absent
  /\ pc = "init"
  /\ products = <<>>
  /\ isManuallyCleared = FALSE
  /\ isFirstRender = TRUE
  /\ isLoading = TRUE
  /\ alerts = <<>>
  /\ nextId = 0
  /\ outcome = ""
  /\ fault = "none"
  /\ faultsSeen = 0
  /\ isListening = FALSE
  /\ recognizers = <<>>
  /\ lastCall = "none"
  /\ pending = <<>>
  /\ editingProduct = <<>>

Init == InitFrom(SessionStores, {FALSE})

Next ==
  \/ \E quota \in BOOLEAN : BootA(quota) /\ Still
  \/ \E f \in Faults : EffectA(f) /\ Still
  \/ BootB /\ Still
  \/ LoadEffectB /\ Still
  \/ \E f \in Faults : EffectB(f) /\ Still
  \/ \E a \in VoiceActions : HandleVoiceCommandA(a) /\ Still
  \/ \E a \in VoiceActions, eager \in BOOLEAN : ApplyInventoryActionB(a, eager) /\ Still
  \/ \E name \in FormNames : SaveNewProduct(name) /\ Still
  \/ \E i \in 1..MaxProducts, name \in FormNames, limit \in {2} :
       SaveEditedProduct(i, name, limit) /\ Still
  \/ \E i \in 1..MaxProducts, qty \in FormQtys : SaveNewSub(i, qty) /\ Still
  \/ \E i \in 1..MaxProducts, j \in 1..MaxSubs, qty \in FormQtys : SaveEditedSub(i, j, qty) /\ Still
  \/ \E i \in 1..MaxProducts, confirm \in BOOLEAN : DeleteProduct(i, confirm) /\ Still
  \/ \E i \in 1..MaxProducts, j \in 1..MaxSubs : DeleteSubProduct(i, j) /\ Still
  \/ \E f \in Faults : HandleManualSave(f) /\ Still
  \/ \E confirm \in BOOLEAN : RestoreFromSafety(confirm) /\ Still
  \/ \E file \in ImportFiles, confirm \in BOOLEAN, f \in Faults :
       HandleFileUploadA(file, confirm, f) /\ Still
  \/ \E file \in ImportFiles : HandleFileUploadB(file) /\ Still

Spec == Init /\ [][Next]_vars

(* Boot alone, from every combination of stored texts *)

InitBoot == InitFrom(BootStores, BOOLEAN)

NextBoot ==
  \/ \E quota \in BOOLEAN : BootA(quota) /\ Still
  \/ \E f \in Faults : EffectA(f) /\ Still
  \/ BootB /\ Still
  \/ LoadEffectB /\ Still
  \/ \E f \in Faults : EffectB(f) /\ Still

SpecBoot == InitBoot /\ [][NextBoot]_vars

(* Boot from every stored catalog of a bounded shape, then backup and import *)

\* Stored product k with the variant quantities qs.
StoredProduct(k, qs) ==
  MkProduct(10 * k, <<"C">>, <<"F">>, 0, 1,
    [j \in DOMAIN qs |-> MkSub(10 * k + j, <<"S">>, <<>>, <<"G">>, 0, qs[j])])

StoredProducts ==
  UNION {{StoredProduct(1, qs) : qs \in [1..n -> 0..(MaxQty + 1)]} : n \in 0..MaxSubs}

\* The catalogs of up to MaxProducts products the application can have stored.
RECURSIVE CatalogsOf(_)
CatalogsOf(n) ==
  IF n = 0 THEN {<<>>}
  ELSE CatalogsOf(n - 1) \cup
         {Append(c, [p EXCEPT !.id = 10 * n,
                       !.subProducts = [j \in DOMAIN @ |-> [@[j] EXCEPT !.id = 10 * n + j]]]) :
            c \in {d \in CatalogsOf(n - 1) : Len(d) = n - 1}, p \in StoredProducts}

Catalogs == CatalogsOf(MaxProducts)

\* A record of a file that carries a name and nothing else.
RawProduct == MkProduct(0, <<"X">>, <<>>, 0, 0, <<>>)

RawFiles == {Stringify(<<RawProduct>>), EnvText(<<RawProduct>>)}

\* The user downloads the JSON backup and imports that file.
ImportOwnBackup ==
  \/ \E confirm \in BOOLEAN, f \in Faults :
       HandleFileUploadA(HandleBackup(products), confirm, f)
  \/ HandleFileUploadB(HandleBackup(products))

\* The user imports a file whose records lack fields.
ImportRaw ==
  \/ \E file \in RawFiles, confirm \in BOOLEAN, f \in Faults :
       HandleFileUploadA(file, confirm, f)
  \/ \E file \in RawFiles : HandleFileUploadB(file)

\* A file in which two records carry the same id.
DupFile ==
  Stringify(<< MkProduct(7, <<"X">>, <<"F">>, 0, 0, <<>>),
               MkProduct(7, <<"Y">>, <<"F">>, 0, 0, <<>>) >>)

\* The user imports the file with the repeated id.
ImportDuplicates ==
  \/ \E confirm \in BOOLEAN, f \in Faults : HandleFileUploadA(DupFile, confirm, f)
  \/ HandleFileUploadB(DupFile)

InitImport == InitFrom({Store(Stringify(c), Absent, Absent) : c \in Catalogs}, {FALSE})

NextImport ==
  \/ \E quota \in BOOLEAN : BootA(quota) /\ Still
  \/ \E f \in Faults : EffectA(f) /\ Still
  \/ BootB /\ Still
  \/ LoadEffectB /\ Still
  \/ \E f \in Faults : EffectB(f) /\ Still
  \/ ImportOwnBackup /\ Still
  \/ ImportRaw /\ Still
  \/ ImportDuplicates /\ Still

SpecImport == InitImport /\ [][NextImport]_vars

(* Boot from every combination of stored texts, then add, delete and restore *)

InitRestore == InitFrom(BootStores, {FALSE})

NextRestore ==
  \/ \E quota \in BOOLEAN : BootA(quota) /\ Still
  \/ \E f \in Faults : EffectA(f) /\ Still
  \/ BootB /\ Still
  \/ LoadEffectB /\ Still
  \/ \E f \in Faults : EffectB(f) /\ Still
  \/ \E name \in FormNames : SaveNewProduct(name) /\ Still
  \/ \E i \in 1..MaxProducts, confirm \in BOOLEAN : DeleteProduct(i, confirm) /\ Still
  \/ \E confirm \in BOOLEAN : RestoreFromSafety(confirm) /\ Still

SpecRestore == InitRestore /\ [][NextRestore]_vars

(* Voice sessions, AI calls in flight and the product form *)

InitVoice == InitFrom({Store(Stringify(Cat1), Absent, Absent)}, {FALSE})

NextVoice ==
  \/ \E quota \in BOOLEAN : BootA(quota) /\ Still
  \/ \E f \in Faults : EffectA(f) /\ VoiceSetupA
  \/ BootB /\ Still
  \/ LoadEffectB /\ VoiceSetupB
  \/ \E f \in Faults : EffectB(f) /\ VoiceSetupB
  \/ ToggleListening
  \/ \E k \in 1..(MaxSessions + 1) : OnStart(k)
  \/ \E k \in 1..(MaxSessions + 1) : OnResult(k)
  \/ \E k \in 1..(MaxSessions + 1) : OnEnd(k)
  \/ \E n \in 1..MaxCalls, r \in Responses : ResumeVoice(n, r)
  \/ \E i \in 1..MaxProducts : OpenProductForm(i)
  \/ \E name \in FormNames, limit \in {2} : SubmitProductForm(name, limit)
  \/ CloseProductForm
  \/ \E i \in 1..MaxProducts, j \in 1..MaxSubs, qty \in FormQtys :
       editingProduct = <<>> /\ SaveEditedSub(i, j, qty) /\ Still
  \/ \E i \in 1..MaxProducts :
       editingProduct = <<>> /\ DeleteProduct(i, TRUE) /\ Still
  \/ editingProduct = <<>> /\ HandleFileUploadA(Stringify(Cat1), TRUE, "none") /\ Still
  \/ editingProduct = <<>> /\ HandleFileUploadB(Stringify(Cat1)) /\ Still

SpecVoice == InitVoice /\ [][NextVoice]_vars

-----------------------------------------------------------------------------
(* Properties *)

\* A voice action a handled by the mounted App.
VoiceStep(a) ==
  \/ HandleVoiceCommandA(a)
  \/ \E eager \in BOOLEAN : ApplyInventoryActionB(a, eager)

\* Whether a SubProduct of the catalog satisfies the mounted App's matching rule.
Matched(a) ==
  IF app = "A" THEN AnyHitA(products, a) ELSE AnyHitB(products, a)

NonNegative(cat) == \A q \in Quantities(cat) : q >= 0

\* C1 (write guard): in App A, when the primary key holds more than 50
\* characters and a step empties the in-memory catalog with isManuallyCleared
\* false, that step and the save effect that follows it leave the primary key
\* and the backup key as they were.
C1_WriteGuard ==
  [][(/\ app = "A"
      /\ store.primary.len > GuardMinLen
      /\ products' = <<>> /\ ~isManuallyCleared'
      /\ (products # <<>> \/ (pc = "effect" /\ pc' = "idle")))
     => (store'.primary = store.primary /\ store'.backup = store.backup)]_vars

\* C2 (no stale alerts): in every quiescent state, after the boot load and
\* after every catalog change, whether its write was performed, skipped or
\* failed, alerts is the alert derivation of the current in-memory catalog.
C2_NoStaleAlerts ==
  pc = "idle" => alerts = DeriveAlerts(products)

\* The automatic save of the change pipeline completing without a fault.
AutoSaveOk ==
  /\ app = "A" /\ ~isFirstRender
  /\ ~GuardSkips(store, products, isManuallyCleared)
  /\ EffectA("none")

\* The save sequence of a confirmed import completing without a fault.
ImportSaveOk ==
  /\ app = "A" /\ pc = "effect" /\ outcome = "restored"
  /\ EffectA("none")

\* C3 (primary/backup mirror): in App A, after a save that completes without a
\* storage fault (the automatic save, the manual force save, the save sequence
\* of a confirmed import) the backup key holds the same serialized value as
\* the primary key, the serialization of the in-memory catalog.
C3_PrimaryBackupMirror ==
  [][(AutoSaveOk \/ ImportSaveOk \/ HandleManualSave("none"))
     => (store'.backup = store'.primary /\ store'.primary = Stringify(products))]_vars

\* A confirmed import of a non-empty catalog has been saved without a fault and
\* has replaced what the two keys held before.
C3_Witness ==
  /\ app = "A" /\ pc = "idle" /\ outcome = "restored" /\ faultsSeen = 0
  /\ products = Cat1
  /\ store.primary = Stringify(Cat1) /\ store.backup = store.primary
  /\ store.safety # store.primary

\* C4 (safety backup): after boot of App A the safety-backup key holds what the
\* primary key held when the session started (nothing when the primary key was
\* absent), and no step other than boot writes the safety-backup key.
C4_SafetyBackup ==
  [][app = "A" =>
       /\ (pc = "init" /\ pc' = "mount") => store'.safety = store.primary
       /\ pc # "init" => store'.safety = store.safety]_vars

\* C5 (boot writes nothing to the catalog keys): no step from application
\* start up to the first quiescent state writes the primary key or the backup
\* key, in either build of the application mounted by index.tsx.
C5_BootWritesNothing ==
  [][store'.primary = store.primary /\ store'.backup = store.backup]_vars

\* The catalog the boot load is to produce from the two catalog keys.
BootExpected(st) ==
  IF IsArrayText(st.primary) THEN st.primary.v
  ELSE IF IsArrayText(st.backup) THEN st.backup.v
  ELSE IF Truthy(st.primary) \/ Truthy(st.backup) THEN <<>>
  ELSE DemoSeed

\* C6 (boot load precedence): the catalog App A holds after boot is the parsed
\* primary value when it is a catalog, otherwise the parsed backup value when
\* it is a catalog, otherwise empty when a value was found, the demo seed when
\* both keys are absent; and it is always a sequence of products.
C6_BootLoadPrecedence ==
  app = "A" =>
    /\ pc = "mount" => products = BootExpected(store)
    /\ fault # "boot_not_array"

\* C7 (quantity never negative): every SubProduct quantity of the in-memory
\* catalog and of the catalog persisted under the primary key is >= 0.
C7_QuantityNonNegative ==
  /\ NonNegative(products)
  /\ IsArrayText(store.primary) => NonNegative(store.primary.v)

\* C8 (UpdateStock result): an UpdateStock action with SKU s and non-zero
\* quantityChange d leaves every SubProduct whose sku equals s without regard
\* to case, in any product, with quantity max(0, q + d).
C8_UpdateStockResult ==
  [][\A a \in UpdateStockActions :
       (a.sku # <<>> /\ a.quantityChange # 0 /\ VoiceStep(a)) =>
          /\ DOMAIN products' = DOMAIN products
          /\ \A i \in DOMAIN products : \A j \in DOMAIN products[i].subProducts :
               ToLower(products[i].subProducts[j].sku) = ToLower(a.sku) =>
                 /\ j \in DOMAIN products'[i].subProducts
                 /\ products'[i].subProducts[j].quantity =
                      MaxOf(0, products[i].subProducts[j].quantity + a.quantityChange)]_vars

\* C9 (UpdateStock not-found): for an UpdateStock action with a non-zero
\* quantityChange the not-found message is shown if and only if no SubProduct
\* of the catalog satisfied the matching rule; with no match the catalog is
\* unchanged, with a match the success outcome is shown.
C9_UpdateStockNotFound ==
  [][\A a \in UpdateStockActions :
       (a.quantityChange # 0 /\ VoiceStep(a)) =>
          /\ outcome' = "not_found" <=> ~Matched(a)
          /\ ~Matched(a) => products' = products
          /\ Matched(a) => outcome' \in {"stock_updated", "reason"}]_vars

\* C10 (UpdateStock fan-out by color): an UpdateStock action that gives a color
\* and a non-zero quantityChange and neither SKU nor product name changes by
\* quantityChange the quantity of both SubProducts of a product whose colors
\* contain that color.
C10_FanOutByColor ==
  [][\A a \in UpdateStockActions :
       (/\ a.color # <<>> /\ a.sku = <<>> /\ a.productName = <<>>
        /\ a.quantityChange # 0 /\ VoiceStep(a)) =>
          \A i \in DOMAIN products :
            LET subs == products[i].subProducts
                hits == {j \in DOMAIN subs :
                           Includes(ToLower(subs[j].color), ToLower(a.color))}
            IN  Cardinality(hits) >= 2 =>
                  /\ i \in DOMAIN products'
                  /\ \A j \in hits :
                       /\ j \in DOMAIN products'[i].subProducts
                       /\ products'[i].subProducts[j].quantity =
                            subs[j].quantity + a.quantityChange]_vars

\* C11 (UpdateStock by product name alone): an UpdateStock action that gives a
\* product name and a non-zero quantityChange and neither SKU nor color
\* updates the quantity of the named product's SubProduct when it has exactly
\* one, and updates none when it has two or more.
C11_UpdateStockByName ==
  [][\A a \in UpdateStockActions :
       (/\ a.productName # <<>> /\ a.sku = <<>> /\ a.color = <<>>
        /\ a.quantityChange # 0 /\ VoiceStep(a)) =>
          \A i \in DOMAIN products :
            MatchesProduct(products[i], a) =>
              LET subs == products[i].subProducts
              IN  /\ i \in DOMAIN products'
                  /\ DOMAIN products'[i].subProducts = DOMAIN subs
                  /\ Len(subs) = 1 =>
                       products'[i].subProducts[1].quantity
                         \in {subs[1].quantity + a.quantityChange,
                              MaxOf(0, subs[1].quantity + a.quantityChange)}
                  /\ Len(subs) >= 2 => products'[i].subProducts = subs]_vars

\* Whether a creation action carries variant-shaped fields.
VariantShaped(a) == a.hasQuantity \/ a.sku # <<>> \/ a.color # <<>>

\* The ids of the records of a catalog.
AllIds(cat) ==
  ProductIds(cat) \cup
    UNION {{cat[i].subProducts[j].id : j \in DOMAIN cat[i].subProducts} :
             i \in DOMAIN cat}

\* C13 (CreateProduct augmentation): a CreateProduct action that names an
\* existing product (exact name, case ignored) leaves the number of products,
\* the product's own fields and its existing SubProducts unchanged, and
\* appends exactly one SubProduct with a fresh id when the action carries
\* variant-shaped fields (price, quantity, sku or color), none otherwise.
C13_CreateProductAugments ==
  [][\A a \in CreateActions :
       (a.type = "CREATE_PRODUCT" /\ VoiceStep(a)) =>
          \A i \in DOMAIN products :
            ToLower(products[i].name) = ToLower(a.productName) =>
              LET subs == products[i].subProducts
                  n == Len(subs)
              IN  /\ Len(products') = Len(products)
                  /\ [products'[i] EXCEPT !.subProducts = subs] = products[i]
                  /\ Len(products'[i].subProducts) = n + (IF VariantShaped(a) THEN 1 ELSE 0)
                  /\ SubSeq(products'[i].subProducts, 1, n) = subs
                  /\ VariantShaped(a) =>
                       products'[i].subProducts[n + 1].id \notin AllIds(products)]_vars

\* C14 (CreateProduct of a new name): a CreateProduct action that carries only
\* a product name n, applied when no product is named n, appends exactly one
\* product named n with no SubProducts, category "General", alertLimit 10,
\* basePrice 0 and a fresh id, and leaves the existing products unchanged.
C14_CreateProductNew ==
  [][\A a \in CreateActions :
       (/\ a.type = "CREATE_PRODUCT" /\ ~a.hasData /\ ~VariantShaped(a)
        /\ \A i \in DOMAIN products : ToLower(products[i].name) # ToLower(a.productName)
        /\ VoiceStep(a)) =>
          /\ Len(products') = Len(products) + 1
          /\ SubSeq(products', 1, Len(products)) = products
          /\ LET p == products'[Len(products) + 1]
             IN  /\ p.name = a.productName
                 /\ p.subProducts = <<>>
                 /\ p.category = <<"General">>
                 /\ p.alertLimit = 10 /\ p.basePrice = 0
                 /\ p.id \notin AllIds(products)]_vars

\* C15 (AddSubProduct on a match): an AddSubProduct action whose product name
\* matches a product appends one SubProduct at the end of that product's
\* subProducts, with a fresh id and, for the fields the payload lacks, a
\* placeholder sku, the parent's basePrice, quantity 0 and color "Default";
\* the existing SubProducts and the product's other fields are unchanged.
C15_AddSubProductMatch ==
  [][\A a \in CreateActions :
       (a.type = "ADD_SUB_PRODUCT" /\ VoiceStep(a)) =>
          \A i \in NamedB(products, a) :
            LET subs == products[i].subProducts
                n == Len(subs)
            IN  /\ Len(products') = Len(products)
                /\ [products'[i] EXCEPT !.subProducts = subs] = products[i]
                /\ Len(products'[i].subProducts) = n + 1
                /\ SubSeq(products'[i].subProducts, 1, n) = subs
                /\ LET sp == products'[i].subProducts[n + 1]
                   IN  /\ sp.id \notin AllIds(products)
                       /\ sp.sku = <<"SKU-#">>
                       /\ sp.color = <<"Default">>
                       /\ sp.price = products[i].basePrice
                       /\ sp.quantity = IF a.hasQuantity THEN a.dataQuantity ELSE 0]_vars

\* C16 (AddSubProduct without a match): an AddSubProduct action whose product
\* name matches no product leaves the catalog unchanged and shows the user the
\* not-found outcome, not the action's success reason.
C16_AddSubProductNoMatch ==
  [][\A a \in CreateActions :
       (a.type = "ADD_SUB_PRODUCT" /\ NamedB(products, a) = {} /\ VoiceStep(a)) =>
          (products' = products /\ outcome' = "not_found")]_vars

\* The SubProducts at or under their parent's limit, by position.
LowPairs(cat) ==
  {ij \in UNION {{<<i, j>> : j \in DOMAIN cat[i].subProducts} : i \in DOMAIN cat} :
     cat[ij[1]].subProducts[ij[2]].quantity <= cat[ij[1]].alertLimit}

\* The place of position ij among the low SubProducts, in catalog order.
Rank(cat, ij) ==
  Cardinality({kl \in LowPairs(cat) :
                 kl[1] < ij[1] \/ (kl[1] = ij[1] /\ kl[2] <= ij[2])})

C17_JsonRoundTrip ==
  [][\A f \in Faults :
       (app = "A" /\ HandleFileUploadA(HandleBackup(products), TRUE, f))
         => products' = products]_vars

\* A stored catalog with two variants has been through backup and import.
C17_Witness ==
  /\ app = "A" /\ pc = "effect" /\ outcome = "restored"
  /\ Len(products) = 1 /\ Len(products[1].subProducts) = 2
  /\ products[1].subProducts[2].quantity = 0
  /\ store.safety = Stringify(products)

\* The files a user can hand to the import.
AnyFiles == ImportFiles \cup RawFiles \cup {HandleBackup(products)}

\* C18 (import needs confirmation): an import the user did not confirm leaves
\* the in-memory catalog, the primary key and the backup key unchanged.
C18_ImportNeedsConfirmation ==
  [][\A file \in AnyFiles :
       (HandleFileUploadA(file, FALSE, "none") \/ HandleFileUploadB(file))
         => /\ products' = products
            /\ store'.primary = store.primary /\ store'.backup = store.backup]_vars

\* C19 (import shape check): the import accepts a bare sequence of products
\* and an object whose products field is a sequence; for any other content
\* and for text that does not parse it leaves catalog and storage unchanged
\* and shows a format or parse error.
C19_ImportShapeCheck ==
  [][\A file \in AnyFiles :
       /\ ((\E confirm \in BOOLEAN, f \in Faults : HandleFileUploadA(file, confirm, f))
             \/ HandleFileUploadB(file))
          /\ file.t \notin {"arr", "env"}
          => /\ products' = products /\ store' = store
             /\ outcome' \in {"error_parsing", "invalid_format"}
       /\ ((\E f \in Faults : HandleFileUploadA(file, TRUE, f)) \/ HandleFileUploadB(file))
          /\ file.t \in {"arr", "env"}
          => outcome' \in {"restored", "restored_not_saved"}]_vars

\* Whether every record of the catalog has its id and its text fields.
Complete(cat) ==
  \A i \in DOMAIN cat :
    /\ cat[i].id # 0 /\ cat[i].name # <<>> /\ cat[i].category # <<>>
    /\ \A j \in DOMAIN cat[i].subProducts :
         LET sp == cat[i].subProducts[j]
         IN  sp.id # 0 /\ sp.sku # <<>> /\ sp.color # <<>>

\* C20 (import sanitization): after a confirmed import every Product and
\* SubProduct has an id and every schema field, with the stated defaults; the
\* file {"products":[{"name":"X"}]} yields one product named X with category
\* Uncategorized, basePrice 0, alertLimit 0, no SubProducts and a fresh id.
C20_ImportSanitization ==
  [][\A file \in AnyFiles :
       (/\ (\E f \in Faults : HandleFileUploadA(file, TRUE, f)) \/ HandleFileUploadB(file)
        /\ file.t \in {"arr", "env"})
       => /\ Complete(products')
          /\ file = EnvText(<<RawProduct>>) =>
               /\ Len(products') = 1
               /\ [products'[1] EXCEPT !.id = 0] =
                    MkProduct(0, <<"X">>, <<"Uncategorized">>, 0, 0, <<>>)
               /\ products'[1].id # 0]_vars

\* C21 (force save bypasses the guard): the manual force save, in every state,
\* also with an empty in-memory catalog, isManuallyCleared false and more than
\* 50 characters stored, writes the serialization of the in-memory catalog to
\* the primary key and the backup key and reports success; on a storage fault
\* it reports failure; in both cases the in-memory catalog is unchanged.
C21_ForceSaveBypassesGuard ==
  [][\A f \in Faults :
       HandleManualSave(f) =>
         /\ products' = products
         /\ f = "none" =>
              /\ store'.primary = Stringify(products)
              /\ store'.backup = Stringify(products)
              /\ outcome' = "saved"
         /\ f # "none" => outcome' = "save_failed"]_vars

\* An empty catalog that the automatic save had skipped (the import's own write
\* failed, isManuallyCleared is false) has been force-saved over both keys.
C21_Witness ==
  /\ app = "A" /\ pc = "idle" /\ outcome = "saved"
  /\ products = <<>> /\ ~isManuallyCleared /\ faultsSeen = 1
  /\ store.primary = Stringify(<<>>) /\ store.backup = Stringify(<<>>)
  /\ store.safety.len > GuardMinLen

\* C22 (restore safety backup outcomes): after the user confirms, a
\* safety-backup key that holds a serialized catalog makes the in-memory
\* catalog exactly that catalog and success is shown; a missing key shows the
\* missing-backup message and a payload that is not a serialized catalog shows
\* the corrupt-backup message, both with the catalog unchanged; when the user
\* declines nothing changes.
C22_RestoreOutcomes ==
  [][\A confirm \in BOOLEAN :
       RestoreFromSafety(confirm) =>
         IF ~confirm THEN products' = products /\ store' = store /\ outcome' = ""
         ELSE IF ~Truthy(store.safety)
         THEN products' = products /\ outcome' = "no_safety_backup"
         ELSE IF IsArrayText(store.safety)
         THEN products' = store.safety.v /\ outcome' = "restored_safety"
         ELSE products' = products /\ outcome' = "safety_corrupted"]_vars

\* C23 (storage fault on save): when a storage write of the automatic save
\* fails, the user is shown a failure notice, no fault escapes the save step
\* and the in-memory catalog is the same after the failed save as before it.
C23_StorageFaultOnSave ==
  [][\A f \in Faults \ {"none"} :
       (EffectA(f) \/ EffectB(f)) =>
         /\ outcome' = "storage_full"
         /\ pc' # "crashed" /\ fault' = fault
         /\ products' = products]_vars

\* C27 (guard covers every non-deliberate emptiness): in App A, the automatic
\* save that follows a restore of the safety backup or an import that emptied
\* the in-memory catalog, also after an earlier confirmed product deletion,
\* leaves a primary value longer than 50 characters as it was (in a session
\* where no storage write has failed).
C27_GuardCoversEmptiness ==
  [][(/\ app = "A" /\ pc = "effect" /\ pc' = "idle" /\ faultsSeen' = 0
      /\ products = <<>>
      /\ outcome \in {"restored_safety", "restored", "restored_not_saved"}
      /\ store.primary.len > GuardMinLen)
     => store'.primary = store.primary]_vars

\* C28 (a deliberate delete is persisted): the automatic save that follows the
\* confirmed deletion of the last remaining product, when no storage write
\* fails, leaves the empty catalog under the primary key, and under the backup
\* key in the App that has one, so that a reload does not load the deleted
\* product.
C28_DeletePersisted ==
  [][(/\ pc = "effect" /\ pc' = "idle" /\ faultsSeen' = faultsSeen
      /\ products = <<>> /\ outcome = ""
      /\ IsArrayText(store.primary) /\ store.primary.v # <<>>)
     => /\ store'.primary = Stringify(<<>>)
        /\ app = "A" => store'.backup = Stringify(<<>>)]_vars

\* C25 (unique product ids): the product ids of the in-memory catalog are
\* pairwise distinct after every sequence of operations that starts from a
\* catalog with pairwise distinct product ids.
C25_UniqueProductIds ==
  Cardinality(ProductIds(products)) = Len(products)

\* C24 (AI collaborator fault containment): for a failed request, an empty
\* response or response text that does not parse, processInventoryCommand
\* resolves to an action of type UNKNOWN, and handling that result shows the
\* user a message, leaves the catalog unchanged and takes nothing down.
C24_AiFaultContained ==
  [][\A n \in 1..MaxCalls, r \in FailedResponses :
       ResumeVoice(n, r) =>
         /\ ProcessInventoryCommand(r).type = "UNKNOWN"
         /\ products' = products
         /\ outcome' \in {"could_not_understand", "reason"}
         /\ pc' = pc /\ fault' = fault]_vars

\* A recognition result whose AI call failed has been handled: the message is
\* shown, no call is awaited and the recognizer waits for its end event.
C24_Witness ==
  /\ pc = "idle" /\ pending = <<>>
  /\ outcome \in {"could_not_understand", "reason"}
  /\ products = Cat1
  /\ \E k \in DOMAIN recognizers : recognizers[k].session = "done"

\* C26 (single recognition session): a click on the voice toggle while a
\* recognition session is active (start called, end event not yet delivered)
\* calls stop() on the recognizer, never start().
C26_SingleSession ==
  [][ToggleListening =>
       ((\E k \in DOMAIN recognizers : recognizers[k].session # "none")
          => lastCall' = "stop")]_vars

\* The quantity an UpdateStock action leaves in SubProduct j of product i of
\* the current catalog, by the rule of the mounted App.
QuantityAfter(i, j, a) ==
  LET p == products[i]
      sp == p.subProducts[j]
  IN  IF a.type # "UPDATE_STOCK" \/ a.quantityChange = 0 THEN sp.quantity
      ELSE IF app = "A"
      THEN (IF HitA(p, sp, a) THEN NewQuantityA(sp.quantity, a.quantityChange)
            ELSE sp.quantity)
      ELSE (IF HitB(p, sp, a) THEN NewQuantityB(sp.quantity, a.quantityChange)
            ELSE sp.quantity)

\* C29 (no lost update across the AI call): the action an AI call resolves to
\* is applied to the catalog as it is when the call resolves: every product
\* and SubProduct of that catalog, with the user's edits made while the call
\* was awaited, is in the resulting catalog at its place with its fields, the
\* quantities are those the action gives from the current ones, and a
\* creation with a payload adds its record.
C29_NoLostUpdate ==
  [][\A n \in 1..MaxCalls, r \in Responses :
       ResumeVoice(n, r) =>
         LET a == ProcessInventoryCommand(r)
         IN  /\ Len(products') >= Len(products)
             /\ \A i \in DOMAIN products :
                  LET p == products[i]
                      q == products'[i]
                  IN  /\ [q EXCEPT !.subProducts = p.subProducts] = p
                      /\ Len(q.subProducts) >= Len(p.subProducts)
                      /\ \A j \in DOMAIN p.subProducts :
                           /\ [q.subProducts[j] EXCEPT !.quantity = p.subProducts[j].quantity]
                                = p.subProducts[j]
                           /\ q.subProducts[j].quantity = QuantityAfter(i, j, a)
             /\ (a.type = "CREATE_PRODUCT" /\ a.hasData)
                  => AllIds(products') \ AllIds(products) # {}]_vars

\* The user has renamed the product after the recognizer that heard the
\* command was set up, and the stock update of the AI call has then been
\* applied: the catalog holds the new name and the new quantity.
C29_Witness ==
  /\ pc = "effect" /\ pending = <<>> /\ outcome \in {"stock_updated", "reason"}
  /\ Len(products) = 1 /\ products[1].name = <<"L">> /\ products[1].alertLimit = 2
  /\ Len(products[1].subProducts) = 1
  /\ products[1].subProducts[1].quantity < 1
  /\ \E k \in DOMAIN recognizers :
       /\ recognizers[k].session = "done"
       /\ recognizers[k].seen = Cat1

\* C30 (saving an edited product keeps its variants): when the product form,
\* opened on an existing product, is saved, the product keeps its position and
\* its subProducts are those the catalog holds at the moment of the save.
C30_EditKeepsVariants ==
  [][\A name \in FormNames, limit \in {2} :
       SubmitProductForm(name, limit) =>
         \A i \in DOMAIN products :
           products[i].id = editingProduct[1].id =>
             /\ i \in DOMAIN products'
             /\ products'[i].id = products[i].id
             /\ products'[i].subProducts = products[i].subProducts]_vars

====
